---------------------------- MODULE Spec2Model ----------------------------
(***************************************************************************)
(* A model of arcgzip.py, a reader and writer of multi-member gzip         *)
(* archives.                                                               *)
(*                                                                         *)
(* Representation.                                                         *)
(*   - A byte string is a sequence of integers 0..255; a text string is a  *)
(*     sequence of code points.                                            *)
(*   - Python's None is the empty sequence None and a value v that may be  *)
(*     None is carried as Some(v) = <<v>>, so that None, the empty string  *)
(*     Some(<<>>) and a non-empty string are three different values.       *)
(*   - An unsigned 32-bit value read from the file is kept as the integer  *)
(*     with the same 32 bits (values from 2^31 on appear as negative       *)
(*     numbers), because TLC's integers are 32 bits wide; equality       *)
(*     of two such values is equality of the 32-bit words.                 *)
(*   - zlib is an external library.  Its raw-deflate codec is modelled by  *)
(*     deflate "stored" blocks with one-byte LEN and NLEN fields, and its  *)
(*     crc32 by a 24-bit rolling checksum with the same interface          *)
(*     (incremental, 0 for the empty string).                              *)
(***************************************************************************)
EXTENDS Integers, Sequences, FiniteSets, TLC

----------------------------------------------------------------------------
(* gzip constants, arcgzip.py lines 35-57 *)
HEADER_SIZE == 10
FOOTER_SIZE == 8
GZIP_MAGIC == <<31, 139>>
FTEXT == 1
FHCRC == 2
FEXTRA == 4
FNAME == 8
FCOMMENT == 16
FRESERVED == 224
Z_BEST_SPEED == 1
Z_BEST_COMPRESSION == 9

(* Bounds of the model.  BUFSIZE is the read-buffer size of the program     *)
(* (16384 there), scaled down so that payloads span several buffers.        *)
BUFSIZE == 4
MaxMembers == 2
MaxGarbage == 2

----------------------------------------------------------------------------
(* Python values *)
None == <<>>
Some(v) == <<v>>
IsNone(o) == o = <<>>
Val(o) == o[1]
(* Python truthiness of an optional string or bytes value: "if x:" *)
Truthy(o) == o # <<>> /\ o[1] # <<>>

Take(s, n) == SubSeq(s, 1, IF n < Len(s) THEN n ELSE Len(s))

RECURSIVE BitAnd(_, _)
BitAnd(a, b) ==
    IF a = 0 \/ b = 0 THEN 0
    ELSE (IF a % 2 = 1 /\ b % 2 = 1 THEN 1 ELSE 0) + 2 * BitAnd(a \div 2, b \div 2)

RECURSIVE BitOr(_, _)
BitOr(a, b) ==
    IF a = 0 THEN b
    ELSE IF b = 0 THEN a
    ELSE (IF a % 2 = 1 \/ b % 2 = 1 THEN 1 ELSE 0) + 2 * BitOr(a \div 2, b \div 2)

(* struct.pack / struct.unpack, little-endian *)
IsU8(n) == n >= 0 /\ n <= 255
IsU16(n) == n >= 0 /\ n <= 65535
(* every non-negative integer of the model is below 2^31, hence below 2^32 *)
IsU32(n) == n >= 0
(* Pack16 with the two bytes in network order *)
Pack16_BigEndian(n) == <<(n \div 256) % 256, n % 256>>

Pack16(n) == <<n % 256, n \div 256>>
Unpack16(b) == b[1] + 256 * b[2]
Pack32(n) ==
    LET top == IF n >= 0 THEN n \div 16777216 ELSE 256 + (n \div 16777216)
    IN  <<n % 256, (n \div 256) % 256, (n \div 65536) % 256, top>>
Unpack32(b) ==
    b[1] + 256 * b[2] + 65536 * b[3]
      + 16777216 * (IF b[4] < 128 THEN b[4] ELSE b[4] - 256)

(* x % 0x100000000 for 0 <= x < 2^31, by 16-bit halves *)
Mod32(x) == ((x \div 65536) % 65536) * 65536 + (x % 65536)

(* zlib.crc32(data, start): the stand-in checksum *)
RECURSIVE crc32(_, _)
crc32(data, start) ==
    IF data = <<>> THEN start
    ELSE crc32(Tail(data), (start * 31 + Head(data) + 1) % 16777216)

(* str.encode('latin-1') succeeds iff every code point is below 256;       *)
(* it and bytes.decode('latin-1') then keep the code points.               *)
Latin1Encodable(s) == \A i \in 1..Len(s) : s[i] >= 0 /\ s[i] <= 255
Latin1Encode(s) == s
Latin1Decode(bs) == bs

(* fileobj.read(n) at position pos (0-based) of the byte string f *)
Read(f, pos, n) ==
    IF pos >= Len(f) THEN <<>>
    ELSE SubSeq(f, pos + 1, IF pos + n < Len(f) THEN pos + n ELSE Len(f))

----------------------------------------------------------------------------
(* The raw-deflate codec (zlib.compressobj / zlib.decompressobj with        *)
(* wbits = -MAX_WBITS).  A stream is a sequence of stored blocks            *)
(*     <<hdr, LEN, 255 - LEN>> \o data                                      *)
(* where bit 0 of hdr is BFINAL and bits 1-2 are BTYPE (0 = stored).        *)

(* zlib.compressobj(level, ...) raises ValueError unless -1 <= level <= 9 *)
CompressLevelOk(level) == level >= -1 /\ level <= 9
(* encoder.compress(data): one non-final stored block *)
Compress(data) == <<0, Len(data), 255 - Len(data)>> \o data
(* encoder.flush(): the final, empty block *)
CompressFlush == <<1, 0, 255>>

NewDecoder == [st |-> "hdr", final |-> FALSE, len |-> 0, rem |-> 0, unused |-> <<>>]

(* decoder.decompress(chunk) from byte i on: the decoder after it, the      *)
(* output produced, and whether zlib.error was raised.                      *)
RECURSIVE Inflate(_, _, _, _)
Inflate(dec, chunk, i, out) ==
    IF i > Len(chunk) THEN [dec |-> dec, out |-> out, err |-> FALSE]
    ELSE IF dec.st = "done"
    THEN [dec |-> [dec EXCEPT !.unused = dec.unused \o SubSeq(chunk, i, Len(chunk))],
          out |-> out, err |-> FALSE]
    ELSE LET b == chunk[i]
             after == IF dec.final THEN "done" ELSE "hdr"
         IN CASE dec.st = "hdr" ->
                   IF (b \div 2) % 4 # 0
                   THEN [dec |-> dec, out |-> out, err |-> TRUE]
                   ELSE Inflate([dec EXCEPT !.st = "len", !.final = (b % 2 = 1)],
                                chunk, i + 1, out)
              [] dec.st = "len" ->
                   Inflate([dec EXCEPT !.st = "nlen", !.len = b], chunk, i + 1, out)
              [] dec.st = "nlen" ->
                   IF b # 255 - dec.len
                   THEN [dec |-> dec, out |-> out, err |-> TRUE]
                   ELSE Inflate([dec EXCEPT !.st = IF dec.len = 0 THEN after ELSE "data",
                                            !.rem = dec.len],
                                chunk, i + 1, out)
              [] OTHER ->
                   Inflate([dec EXCEPT !.st = IF dec.rem = 1 THEN after ELSE "data",
                                       !.rem = dec.rem - 1],
                           chunk, i + 1, Append(out, b))

Decompress(dec, chunk) == Inflate(dec, chunk, 1, <<>>)
(* decoder.flush(): the decoder holds back no output *)
DecompressFlush(dec) == <<>>

----------------------------------------------------------------------------
(* class GzipInfo *)

(* GzipInfo.__init__ with its default arguments *)
NewInfo ==
    [CM |-> 8, FLG |-> 0, MTIME |-> 0, XFL |-> 0, OS |-> 255,
     EXFIELD |-> None, FNAME |-> None, FCOMMENT |-> None,
     CRC16 |-> None, CRC32 |-> None, ISIZE |-> None, data_offset |-> None]

(* _read_to_zero(fp): the bytes before the next zero byte and the position  *)
(* after it, or None when the file ends first.                              *)
RECURSIVE ReadToZero(_, _, _)
ReadToZero(f, pos, res) ==
    LET c == Read(f, pos, 1)
    IN  IF c = <<>> THEN [res |-> None, pos |-> pos]
        ELSE IF c = <<0>> THEN [res |-> Some(res), pos |-> pos + 1]
        ELSE ReadToZero(f, pos + 1, res \o c)

(* A parse in progress: the exception raised so far ("none" if none), the   *)
(* descriptor, the file position and the header bytes read (buf + exbuf).   *)
Raise(st, e) == [st EXCEPT !.exc = e]

(* HeaderError without the check of the reserved bits *)
HeaderError_MethodOnly(info) == IF info.CM # 8 THEN "GzipError" ELSE "none"

(* fromgzipfile, the checks of the method and of the reserved flag bits *)
HeaderError(info) ==
    IF info.CM # 8 THEN "GzipError"
    ELSE IF BitAnd(info.FLG, FRESERVED) # 0 THEN "GzipError"
    ELSE "none"

(* fromgzipfile, the fixed header *)
ParseFixed(f, pos) ==
    LET buf == Read(f, pos, HEADER_SIZE)
        st  == [exc |-> "none", info |-> NewInfo, pos |-> pos + Len(buf), hbuf |-> buf]
    IN  IF buf = <<>> THEN Raise(st, "EmptyHeader")
        ELSE IF Take(buf, 2) # GZIP_MAGIC THEN Raise(st, "BadMagicNumber")
        ELSE IF Len(buf) < HEADER_SIZE THEN Raise(st, "GzipError")
        ELSE LET info == [NewInfo EXCEPT !.CM = buf[3], !.FLG = buf[4],
                                         !.MTIME = Unpack32(SubSeq(buf, 5, 8)),
                                         !.XFL = buf[9], !.OS = buf[10]]
             IN  Raise([st EXCEPT !.info = info], HeaderError(info))

(* fromgzipfile, the extra field *)
ParseExtra(f, st) ==
    IF st.exc # "none" \/ BitAnd(st.info.FLG, FEXTRA) = 0 THEN st
    ELSE LET XLEN == Read(f, st.pos, 2)
         IN  IF Len(XLEN) < 2 THEN Raise(st, "struct.error")
             ELSE LET ex == Read(f, st.pos + 2, Unpack16(XLEN))
                  IN  [st EXCEPT !.info.EXFIELD = Some(ex),
                                 !.pos = st.pos + 2 + Len(ex),
                                 !.hbuf = st.hbuf \o XLEN \o ex]

(* fromgzipfile, the file name *)
ParseName(f, st) ==
    IF st.exc # "none" \/ BitAnd(st.info.FLG, FNAME) = 0 THEN st
    ELSE LET r == ReadToZero(f, st.pos, <<>>)
         IN  IF IsNone(r.res) THEN Raise(st, "GzipError")
             ELSE [st EXCEPT !.info.FNAME = Some(Latin1Decode(Val(r.res))),
                             !.pos = r.pos,
                             !.hbuf = st.hbuf \o Val(r.res) \o <<0>>]

(* fromgzipfile, the file comment *)
ParseComment(f, st) ==
    IF st.exc # "none" \/ BitAnd(st.info.FLG, FCOMMENT) = 0 THEN st
    ELSE LET r == ReadToZero(f, st.pos, <<>>)
         IN  IF IsNone(r.res) THEN Raise(st, "GzipError")
             ELSE [st EXCEPT !.info.FCOMMENT = Some(Latin1Decode(Val(r.res))),
                             !.pos = r.pos,
                             !.hbuf = st.hbuf \o Val(r.res) \o <<0>>]

(* the header checksum recomputed over the fixed header alone *)
ParseHcrc_FixedOnly(f, st) ==
    IF st.exc # "none" \/ BitAnd(st.info.FLG, FHCRC) = 0 THEN st
    ELSE LET b == Read(f, st.pos, 2)
         IN  IF Len(b) < 2 THEN Raise(st, "struct.error")
             ELSE LET st1 == [st EXCEPT !.info.CRC16 = Some(Unpack16(b)),
                                        !.pos = st.pos + 2]
                      crc16 == crc32(Take(st.hbuf, HEADER_SIZE), 0) % 65536
                  IN  IF crc16 # Unpack16(b) THEN Raise(st1, "BadChecksum") ELSE st1

(* fromgzipfile, the header checksum *)
ParseHcrc(f, st) ==
    IF st.exc # "none" \/ BitAnd(st.info.FLG, FHCRC) = 0 THEN st
    ELSE LET b == Read(f, st.pos, 2)
         IN  IF Len(b) < 2 THEN Raise(st, "struct.error")
             ELSE LET st1 == [st EXCEPT !.info.CRC16 = Some(Unpack16(b)),
                                        !.pos = st.pos + 2]
                      crc16 == crc32(st.hbuf, 0) % 65536
                  IN  IF crc16 # Unpack16(b) THEN Raise(st1, "BadChecksum") ELSE st1

(* the decode loop without the seek back over decoder.unused_data *)
RECURSIVE SkipLoop_NoSeekBack(_, _, _, _, _)
SkipLoop_NoSeekBack(f, pos, dec, crc, isize) ==
    LET chunk  == Read(f, pos, BUFSIZE)
        r      == Decompress(dec, chunk)
        pos1   == pos + Len(chunk)
        crc1   == crc32(r.out, crc)
        isize1 == Mod32(isize + Len(r.out))
    IN  IF r.err THEN [exc |-> "zlib.error", pos |-> pos1, crc |-> crc, isize |-> isize]
        ELSE IF r.dec.unused # <<>>
        THEN [exc |-> "none", pos |-> pos1, crc |-> crc1, isize |-> isize1]
        ELSE IF chunk = <<>>
        THEN [exc |-> "Hang", pos |-> pos1, crc |-> crc1, isize |-> isize1]
        ELSE SkipLoop_NoSeekBack(f, pos1, r.dec, crc1, isize1)

(* fromgzipfile, "Skip the body part": the decode loop.  A read at the end  *)
(* of the file returns no bytes and leaves the decoder as it was: when its  *)
(* unused_data is still empty the loop repeats without end ("Hang").        *)
RECURSIVE SkipLoop(_, _, _, _, _)
SkipLoop(f, pos, dec, crc, isize) ==
    LET chunk  == Read(f, pos, BUFSIZE)
        r      == Decompress(dec, chunk)
        pos1   == pos + Len(chunk)
        crc1   == crc32(r.out, crc)
        isize1 == Mod32(isize + Len(r.out))
    IN  IF r.err THEN [exc |-> "zlib.error", pos |-> pos1, crc |-> crc, isize |-> isize]
        ELSE IF r.dec.unused # <<>>
        THEN [exc |-> "none", pos |-> pos1 - Len(r.dec.unused),
              crc |-> crc1, isize |-> isize1]
        ELSE IF chunk = <<>>
        THEN [exc |-> "Hang", pos |-> pos1, crc |-> crc1, isize |-> isize1]
        ELSE SkipLoop(f, pos1, r.dec, crc1, isize1)

(* FooterError without the check of the length *)
FooterError_ChecksumOnly(crc, isize, info) ==
    IF crc # Val(info.CRC32) THEN "BadChecksum" ELSE "none"

(* fromgzipfile, the checks of the footer against the checksum and the      *)
(* length accumulated over the payload                                      *)
FooterError(crc, isize, info) ==
    IF crc # Val(info.CRC32) THEN "BadChecksum"
    ELSE IF isize # Val(info.ISIZE) THEN "BadChecksum"
    ELSE "none"

(* fromgzipfile, the body and the footer *)
ParseBody(f, st) ==
    IF st.exc # "none" THEN st
    ELSE LET st1 == [st EXCEPT !.info.data_offset = Some(st.pos)]
             r   == SkipLoop(f, st.pos, NewDecoder, 0, 0)
         IN  IF r.exc # "none" THEN [Raise(st1, r.exc) EXCEPT !.pos = r.pos]
             ELSE LET foot == Read(f, r.pos, FOOTER_SIZE)
                  IN  IF Len(foot) < FOOTER_SIZE
                      THEN [Raise(st1, "struct.error") EXCEPT !.pos = r.pos + Len(foot)]
                      ELSE LET st2 == [st1 EXCEPT
                                         !.info.CRC32 = Some(Unpack32(SubSeq(foot, 1, 4))),
                                         !.info.ISIZE = Some(Unpack32(SubSeq(foot, 5, 8))),
                                         !.pos = r.pos + FOOTER_SIZE]
                           IN  Raise(st2, FooterError(r.crc, r.isize, st2.info))

(* GzipInfo.fromgzipfile(gzipfile) with the file at position pos *)
fromgzipfile(f, pos) ==
    ParseBody(f, ParseHcrc(f, ParseComment(f, ParseName(f, ParseExtra(f, ParseFixed(f, pos))))))

(* The exceptions of class GzipError and its subclasses *)
IsGzipError(e) == e \in {"GzipError", "EmptyHeader", "BadMagicNumber", "BadChecksum"}

(* The setters of GzipInfo *)
set_filename(info, filename) ==
    [info EXCEPT !.FLG = BitOr(info.FLG, FNAME), !.FNAME = Some(filename)]
set_extra_flag(info, compresslevel) ==
    [info EXCEPT !.XFL = IF compresslevel = Z_BEST_COMPRESSION THEN 2
                         ELSE IF compresslevel = Z_BEST_SPEED THEN 4
                         ELSE 0]
set_file_comment(info, comment) ==
    [info EXCEPT !.FLG = BitOr(info.FLG, FCOMMENT), !.FCOMMENT = Some(comment)]
set_crc16(info) == [info EXCEPT !.FLG = BitOr(info.FLG, FHCRC)]
set_ascii(info) == [info EXCEPT !.FLG = BitOr(info.FLG, FTEXT)]
set_exfield(info, exfield) ==
    [info EXCEPT !.FLG = BitOr(info.FLG, FEXTRA), !.EXFIELD = Some(exfield)]
(* set_operating_system(): platform is the OS byte that sys.platform yields, *)
(* 0 (win32), 3 (linux), 7 (darwin) or 255 (any other); the model runs on   *)
(* linux or on an unknown platform.                                         *)
Platforms == {3, 255}
set_operating_system(info, platform) == [info EXCEPT !.OS = platform]

(* GzipInfo.tobuf(): the header bytes, or the exception raised *)
tobuf(info) ==
    LET fixedOk == IsU8(info.CM) /\ IsU8(info.FLG) /\ IsU32(info.MTIME)
                     /\ IsU8(info.XFL) /\ IsU8(info.OS)
        fixed == GZIP_MAGIC \o <<info.CM, info.FLG>> \o Pack32(info.MTIME)
                   \o <<info.XFL, info.OS>>
        hasX == BitAnd(info.FLG, FEXTRA) # 0
        hasN == BitAnd(info.FLG, FNAME) # 0
        hasC == BitAnd(info.FLG, FCOMMENT) # 0
        ex  == IF hasX THEN Pack16(Len(Val(info.EXFIELD))) \o Val(info.EXFIELD) ELSE <<>>
        nm  == IF hasN THEN Latin1Encode(Val(info.FNAME)) \o <<0>> ELSE <<>>
        cm  == IF hasC THEN Latin1Encode(Val(info.FCOMMENT)) \o <<0>> ELSE <<>>
        res == fixed \o ex \o nm \o cm
    IN  IF ~fixedOk THEN [exc |-> "struct.error", buf |-> <<>>]
        ELSE IF hasX /\ IsNone(info.EXFIELD) THEN [exc |-> "TypeError", buf |-> <<>>]
        ELSE IF hasX /\ ~IsU16(Len(Val(info.EXFIELD)))
        THEN [exc |-> "struct.error", buf |-> <<>>]
        ELSE IF hasN /\ IsNone(info.FNAME) THEN [exc |-> "AttributeError", buf |-> <<>>]
        ELSE IF hasN /\ ~Latin1Encodable(Val(info.FNAME))
        THEN [exc |-> "UnicodeEncodeError", buf |-> <<>>]
        ELSE IF hasC /\ IsNone(info.FCOMMENT) THEN [exc |-> "AttributeError", buf |-> <<>>]
        ELSE IF hasC /\ ~Latin1Encodable(Val(info.FCOMMENT))
        THEN [exc |-> "UnicodeEncodeError", buf |-> <<>>]
        ELSE IF BitAnd(info.FLG, FHCRC) # 0
        THEN [exc |-> "none", buf |-> res \o Pack16(crc32(res, 0) % 65536)]
        ELSE [exc |-> "none", buf |-> res]

----------------------------------------------------------------------------
(* The files of the working directory that addfile and add read.  A path is *)
(* <<directory, base name>>; a file has a modification time and a content;  *)
(* open() fails on an unreadable one; read call number failAt of an open    *)
(* file raises IOError (0: none does).                                      *)
Payload(n) == [i \in 1..n |-> i]
NameA == <<97>>
NameB == <<98>>
Dir == <<100>>
Files ==
    { [path |-> <<Dir, NameA>>, mtime |-> 1412132400, content |-> <<5>>,
       readable |-> TRUE, failAt |-> 0],
      [path |-> <<Dir, NameB>>, mtime |-> 7, content |-> Payload(BUFSIZE + 1),
       readable |-> TRUE, failAt |-> 0],
      [path |-> <<Dir, <<108>>>>, mtime |-> 7, content |-> <<5>>,
       readable |-> FALSE, failAt |-> 0],
      [path |-> <<Dir, <<102>>>>, mtime |-> 7, content |-> Payload(BUFSIZE + 1),
       readable |-> TRUE, failAt |-> 2] }
MissingPath == <<Dir, <<109>>>>
Exists(path) == \E x \in Files : x.path = path
FileAt(path) == CHOOSE x \in Files : x.path = path
basename(path) == path[Len(path)]

(* An open file object handed to add: its name attribute (None for an       *)
(* io.BytesIO), its content and the read call that fails.                   *)
BytesIO(data) == [name |-> None, content |-> data, failAt |-> 0]
OpenFile(path) ==
    [name |-> Some(path), content |-> FileAt(path).content, failAt |-> FileAt(path).failAt]

(* GzipInfo.fromfilepath(filepath); os.path.getmtime raises OSError when    *)
(* the path does not exist.                                                 *)
fromfilepath(filepath) ==
    IF ~Exists(filepath) THEN [exc |-> "OSError", info |-> NewInfo]
    ELSE [exc |-> "none",
          info |-> [NewInfo EXCEPT !.FLG = BitOr(NewInfo.XFL, FNAME),
                                   !.FNAME = Some(basename(filepath)),
                                   !.MTIME = FileAt(filepath).mtime]]

(* GzipInfo.fromfileobj(fileobj); now is int(time.time()) *)
fromfileobj(fileobj, now) ==
    IF ~IsNone(fileobj.name) /\ Exists(Val(fileobj.name))
    THEN fromfilepath(Val(fileobj.name))
    ELSE [exc |-> "none", info |-> [NewInfo EXCEPT !.MTIME = now]]

----------------------------------------------------------------------------
(* class GzipFile *)

(* _load that takes no bytes behind the last member for garbage *)
RECURSIVE Load_NoGarbage(_, _, _)
Load_NoGarbage(f, infos, r) ==
    IF r.exc = "EmptyHeader"
    THEN IF infos # <<>> THEN [exc |-> "none", infos |-> infos, pos |-> r.pos]
         ELSE [exc |-> "IOError: file is empty", infos |-> infos, pos |-> r.pos]
    ELSE IF r.exc = "BadMagicNumber"
    THEN [exc |-> "IOError: file is not gzip format", infos |-> infos, pos |-> r.pos]
    ELSE IF r.exc # "none" THEN [exc |-> r.exc, infos |-> infos, pos |-> r.pos]
    ELSE Load_NoGarbage(f, Append(infos, r.info), fromgzipfile(f, r.pos))

(* _load that returns an empty index for a file without members *)
RECURSIVE Load_EmptyIndex(_, _, _)
Load_EmptyIndex(f, infos, r) ==
    IF r.exc \in {"EmptyHeader", "BadMagicNumber"}
    THEN [exc |-> "none", infos |-> infos, pos |-> r.pos]
    ELSE IF r.exc # "none" THEN [exc |-> r.exc, infos |-> infos, pos |-> r.pos]
    ELSE Load_EmptyIndex(f, Append(infos, r.info), fromgzipfile(f, r.pos))

(* _load with "except GzipError" where the code has "except BadMagicNumber" *)
RECURSIVE Load_ExceptGzipError(_, _, _)
Load_ExceptGzipError(f, infos, r) ==
    IF r.exc = "EmptyHeader"
    THEN IF infos # <<>> THEN [exc |-> "none", infos |-> infos, pos |-> r.pos]
         ELSE [exc |-> "IOError: file is empty", infos |-> infos, pos |-> r.pos]
    ELSE IF r.exc \in {"BadMagicNumber", "GzipError", "BadChecksum"}
    THEN IF infos # <<>> THEN [exc |-> "none", infos |-> infos, pos |-> r.pos]
         ELSE [exc |-> "IOError: file is not gzip format", infos |-> infos,
               pos |-> r.pos]
    ELSE IF r.exc # "none" THEN [exc |-> r.exc, infos |-> infos, pos |-> r.pos]
    ELSE Load_ExceptGzipError(f, Append(infos, r.info), fromgzipfile(f, r.pos))

(* _load that puts each descriptor in front of the index *)
RECURSIVE Load_Prepend(_, _, _)
Load_Prepend(f, infos, r) ==
    IF r.exc = "EmptyHeader"
    THEN IF infos # <<>> THEN [exc |-> "none", infos |-> infos, pos |-> r.pos]
         ELSE [exc |-> "IOError: file is empty", infos |-> infos, pos |-> r.pos]
    ELSE IF r.exc = "BadMagicNumber"
    THEN IF infos # <<>> THEN [exc |-> "none", infos |-> infos, pos |-> r.pos]
         ELSE [exc |-> "IOError: file is not gzip format", infos |-> infos,
               pos |-> r.pos]
    ELSE IF r.exc # "none" THEN [exc |-> r.exc, infos |-> infos, pos |-> r.pos]
    ELSE Load_Prepend(f, <<r.info>> \o infos, fromgzipfile(f, r.pos))

(* GzipFile._load(): the index, or the exception that leaves the scan *)
(* with r the outcome of fromgzipfile at the current position              *)
RECURSIVE LoadStep(_, _, _)
LoadStep(f, infos, r) ==
    IF r.exc = "EmptyHeader"
    THEN IF infos # <<>> THEN [exc |-> "none", infos |-> infos, pos |-> r.pos]
         ELSE [exc |-> "IOError: file is empty", infos |-> infos, pos |-> r.pos]
    ELSE IF r.exc = "BadMagicNumber"
    THEN IF infos # <<>> THEN [exc |-> "none", infos |-> infos, pos |-> r.pos]
         ELSE [exc |-> "IOError: file is not gzip format", infos |-> infos,
               pos |-> r.pos]
    ELSE IF r.exc # "none" THEN [exc |-> r.exc, infos |-> infos, pos |-> r.pos]
    ELSE LoadStep(f, Append(infos, r.info), fromgzipfile(f, r.pos))

Load(f) == LoadStep(f, <<>>, fromgzipfile(f, 0))

(* getinfo that scans the index from its first descriptor *)
RECURSIVE ScanForward(_, _, _)
ScanForward(infos, i, filename) ==
    IF i > Len(infos) THEN None
    ELSE IF filename = infos[i].FNAME THEN Some(i)
    ELSE ScanForward(infos, i + 1, filename)

getinfo_first(infos, filename) == ScanForward(infos, 1, filename)

(* GzipFile.getinfo(filename) on the index infos: the position in the index *)
(* of the descriptor returned, or None.                                     *)
RECURSIVE ScanReversed(_, _, _)
ScanReversed(infos, i, filename) ==
    IF i = 0 THEN None
    ELSE IF filename = infos[i].FNAME THEN Some(i)
    ELSE ScanReversed(infos, i - 1, filename)

getinfo(infos, filename) == ScanReversed(infos, Len(infos), filename)

(* GzipFile.add, the loop over the source: read call number k at offset off *)
RECURSIVE AddLoop(_, _, _, _, _, _)
AddLoop(fileobj, off, k, crc, isize, out) ==
    IF fileobj.failAt = k
    THEN [exc |-> "IOError", out |-> out, crc |-> crc, isize |-> isize]
    ELSE LET data == Read(fileobj.content, off, BUFSIZE)
         IN  IF data = <<>>
             THEN [exc |-> "none", out |-> out, crc |-> crc, isize |-> isize]
             ELSE AddLoop(fileobj, off + Len(data), k + 1, crc32(data, crc),
                          Mod32(isize + Len(data)), out \o Compress(data))

(* GzipFile.add(fileobj, gzipinfo, compresslevel) on a writable handle: the *)
(* exception raised and the bytes written to the archive before it.         *)
(* add, from the loop on: hbuf is the header written, body the outcome of  *)
(* the loop; then encoder.flush() and the footer are written.               *)
add_body(info, hbuf, body) ==
    IF body.exc # "none"
    THEN [exc |-> body.exc, out |-> hbuf \o body.out, info |-> info]
    ELSE [exc |-> "none",
          out |-> hbuf \o body.out \o CompressFlush
                    \o Pack32(body.crc) \o Pack32(body.isize),
          info |-> info]

(* add, from self.fileobj.write(gzipinfo.tobuf()) on: hdr is the outcome of *)
(* tobuf(); zlib.compressobj is called after the header is written.         *)
add_header(fileobj, info, compresslevel, hdr) ==
    IF hdr.exc # "none" THEN [exc |-> hdr.exc, out |-> <<>>, info |-> info]
    ELSE IF ~CompressLevelOk(compresslevel)
    THEN [exc |-> "ValueError", out |-> hdr.buf, info |-> info]
    ELSE add_body(info, hdr.buf, AddLoop(fileobj, 0, 1, 0, 0, <<>>))

(* add with the descriptor resolved: res is the given descriptor or the     *)
(* outcome of fromfileobj                                                   *)
add_resolved(fileobj, res, compresslevel) ==
    IF res.exc # "none" THEN [exc |-> res.exc, out |-> <<>>, info |-> res.info]
    ELSE add_header(fileobj, res.info, compresslevel, tobuf(res.info))

add(fileobj, gzipinfo, compresslevel, now) ==
    add_resolved(fileobj,
                 IF IsNone(gzipinfo) THEN fromfileobj(fileobj, now)
                 ELSE [exc |-> "none", info |-> Val(gzipinfo)],
                 compresslevel)

(* GzipFile.addfile: the descriptor it builds *)
addfile_info(filepath, a, platform) ==
    LET r  == fromfilepath(filepath)
        i1 == set_extra_flag(set_operating_system(r.info, platform), a.level)
        i2 == IF Truthy(a.exfield) THEN set_exfield(i1, Val(a.exfield)) ELSE i1
        i3 == IF Truthy(a.comment) THEN set_file_comment(i2, Val(a.comment)) ELSE i2
        i4 == IF a.crc16 THEN set_crc16(i3) ELSE i3
        i5 == IF a.isascii THEN set_ascii(i4) ELSE i4
    IN  [exc |-> r.exc, info |-> i5]

(* GzipFile.addfile(filepath, ...) on a writable handle *)
addfile_open(filepath, level, r, now) ==
    IF r.exc # "none" THEN [exc |-> r.exc, out |-> <<>>, info |-> r.info]
    ELSE IF ~FileAt(filepath).readable
    THEN [exc |-> "IOError", out |-> <<>>, info |-> r.info]
    ELSE add(OpenFile(filepath), Some(r.info), level, now)

addfile(filepath, a, platform, now) ==
    addfile_open(filepath, a.level, addfile_info(filepath, a, platform), now)

(* GzipFile.adddata: the descriptor it builds *)
adddata_info(a, platform, now) ==
    LET i1 == set_extra_flag(set_operating_system(NewInfo, platform), a.level)
        i2 == [i1 EXCEPT !.MTIME = IF ~IsNone(a.mtime) THEN Val(a.mtime) ELSE now]
        i3 == IF Truthy(a.filename) THEN set_filename(i2, Val(a.filename)) ELSE i2
        i4 == IF Truthy(a.exfield) THEN set_exfield(i3, Val(a.exfield)) ELSE i3
        i5 == IF Truthy(a.comment) THEN set_file_comment(i4, Val(a.comment)) ELSE i4
        i6 == IF a.crc16 THEN set_crc16(i5) ELSE i5
    IN  IF a.isascii THEN set_ascii(i6) ELSE i6

(* GzipFile.adddata(data, ...) on a writable handle *)
adddata(a, platform, now) ==
    add(BytesIO(a.data), Some(adddata_info(a, platform, now)), a.level, now)

(* GzipFile.extract, the decode loop from position pos *)
RECURSIVE ExtractLoop(_, _, _, _)
ExtractLoop(f, pos, dec, buff) ==
    LET chunk == Read(f, pos, BUFSIZE)
        r     == Decompress(dec, chunk)
        pos1  == pos + Len(chunk)
    IN  IF r.err THEN [exc |-> "zlib.error", pos |-> pos1, buff |-> buff]
        ELSE IF r.dec.unused # <<>>
        THEN [exc |-> "none", pos |-> pos1,
              buff |-> buff \o r.out \o DecompressFlush(r.dec)]
        ELSE IF chunk = <<>> THEN [exc |-> "Hang", pos |-> pos1, buff |-> buff \o r.out]
        ELSE ExtractLoop(f, pos1, r.dec, buff \o r.out)

(* GzipFile.extract(filename, gzipinfo) on a readable handle over the file  *)
(* f with index infos.  gzipinfo is None, or Some(i) for the i-th           *)
(* descriptor of the index, or Some(0) for a descriptor that is not in it.  *)
extract(f, infos, filename, gzipinfo) ==
    LET g == IF Truthy(filename) THEN getinfo(infos, filename) ELSE gzipinfo
    IN  IF IsNone(g) \/ Val(g) \notin 1..Len(infos)
        THEN [exc |-> "ValueError", pos |-> -1, buff |-> <<>>]
        ELSE ExtractLoop(f, Val(infos[Val(g)].data_offset), NewDecoder, <<>>)

(* GzipFile.extractfile(filename) on a readable handle: the payload that is *)
(* written to the file filename, as extract returns it.                     *)
extractfile(f, infos, filename) ==
    LET info == getinfo(infos, filename)
    IN  IF IsNone(info) THEN [exc |-> "ValueError", pos |-> -1, buff |-> <<>>]
        ELSE extract(f, infos, None, info)

----------------------------------------------------------------------------
(* The state: one archive file and at most one GzipFile handle on it.       *)
VARIABLES
    archive,    \* the bytes of the archive file
    mode,       \* GzipFile.mode of the handle: "r", "w" or "a"; "none" when
                \* there is no handle; "hung" when GzipFile() never returned
    fileopen,   \* the underlying file object is open (not closed)
    pos,        \* the position of the underlying file object
    gzipinfos,  \* GzipFile.gzipinfos, the index
    result,     \* the outcome of the last call: [op, exc, val]
    platform,   \* the OS byte that sys.platform yields on this machine
    added,      \* history: the add calls that returned, in order
    failed,     \* history: the number of add calls that raised
    garbage,    \* history: the number of bytes appended behind the archive
    damage      \* history: the changes made inside the archive

vars == <<archive, mode, fileopen, pos, gzipinfos, result, platform,
          added, failed, garbage, damage>>

history == <<added, failed, garbage, damage>>

(* int(time.time()) at the time of a call *)
Clock == {1793788888, 1793788889}

(* arg: what the call was given, where a property needs it *)
Outcome(op, arg, exc, val) == [op |-> op, arg |-> arg, exc |-> exc, val |-> val]

Init ==
    /\ archive = <<>>
    /\ mode = "none"
    /\ fileopen = FALSE
    /\ pos = 0
    /\ gzipinfos = <<>>
    /\ result = Outcome("init", <<>>, "none", <<>>)
    /\ platform \in Platforms
    /\ added = <<>>
    /\ failed = 0
    /\ garbage = 0
    /\ damage = <<>>

HasHandle == mode \in {"r", "w", "a"}

(* GzipFile.open(filename, mode) with mode 'w' or 'a': open(filename, 'wb') *)
(* truncates the file, open(filename, 'ab') writes at its end.              *)
OpenWrite(m) ==
    /\ mode = "none"
    /\ m \in {"w", "a"}
    /\ mode' = m
    /\ fileopen' = TRUE
    /\ archive' = IF m = "w" THEN <<>> ELSE archive
    /\ pos' = Len(archive')
    /\ gzipinfos' = <<>>
    /\ result' = Outcome("open", <<>>, "none", <<>>)
    /\ added' = IF m = "w" THEN <<>> ELSE added
    /\ failed' = IF m = "w" THEN 0 ELSE failed
    /\ garbage' = IF m = "w" THEN 0 ELSE garbage
    /\ damage' = IF m = "w" THEN <<>> ELSE damage
    /\ UNCHANGED platform

(* __init__ with "except GzipError:" where the code has "except:" *)
init_except_GzipError(exc) == IsGzipError(exc)

(* GzipFile.__init__, "except: fileobj.close(); raise": the handler runs    *)
(* for whatever _load raises; a _load that does not return raises nothing.  *)
init_except(exc) == exc \notin {"none", "Hang"}

(* GzipFile.open(filename) : GzipFile.__init__ in mode 'r' runs _load and,  *)
(* when that raises, closes the file and re-raises.                         *)
OpenRead ==
    /\ mode = "none"
    /\ \E r \in {Load(archive)} :
           /\ mode' = IF r.exc = "none" THEN "r"
                      ELSE IF r.exc = "Hang" THEN "hung" ELSE "none"
           /\ fileopen' = ~init_except(r.exc)
           /\ pos' = r.pos
           /\ gzipinfos' = IF r.exc = "none" THEN r.infos ELSE <<>>
           /\ result' = Outcome("open", <<>>, r.exc, <<>>)
    /\ UNCHANGED <<archive, platform, history>>

(* GzipFile.close() *)
Close ==
    /\ HasHandle
    /\ mode' = "none"
    /\ fileopen' = FALSE
    /\ gzipinfos' = <<>>
    /\ pos' = 0
    /\ result' = Outcome("close", <<>>, "none", <<>>)
    /\ UNCHANGED <<archive, platform, history>>

(* self.fileobj.write(out) in a mode that rewinds the file first *)
write_rewound(f, at, m, out) ==
    out \o SubSeq(f, Len(out) + 1, Len(f))

(* self.fileobj.write(out) on the file f opened by open(filename, m + 'b')  *)
(* and positioned at at: a file opened 'ab' is written at its end wherever  *)
(* it is positioned, a file opened 'wb' at its position.                    *)
write(f, at, m, out) ==
    IF m = "a" THEN f \o out
    ELSE SubSeq(f, 1, at) \o out \o SubSeq(f, at + Len(out) + 1, Len(f))

(* the position of the file after that write *)
tell(f, at, m, out) == IF m = "a" THEN Len(f) + Len(out) ELSE at + Len(out)

(* The effect of an add call whose outcome is r, recorded in the history    *)
(* as call when it returns, with the bytes from+1..to it wrote.             *)
Written(op, r, call) ==
    /\ archive' = write(archive, pos, mode, r.out)
    /\ pos' = tell(archive, pos, mode, r.out)
    /\ result' = Outcome(op, <<>>, r.exc, <<>>)
    /\ added' = IF r.exc = "none"
                THEN Append(added, [call EXCEPT !.from = pos' - Len(r.out),
                                                !.to = pos',
                                                !.session = mode])
                ELSE added
    /\ failed' = IF r.exc = "none" THEN failed ELSE failed + 1
    /\ UNCHANGED <<mode, fileopen, gzipinfos, platform, garbage, damage>>

NotWritable(op) ==
    /\ result' = Outcome(op, <<>>, "IOError: file not writible", <<>>)
    /\ UNCHANGED <<archive, mode, fileopen, pos, gzipinfos, platform, history>>

Call(op, level, supplied, payload, info) ==
    [op |-> op, level |-> level, supplied |-> supplied, payload |-> payload,
     info |-> info, from |-> 0, to |-> 0, session |-> "none"]

(* What adddata and addfile were given for the fields a caller can set *)
Supplied(mtime, filename, exfield, comment, crc16, isascii) ==
    [mtime |-> mtime, filename |-> filename, exfield |-> exfield,
     comment |-> comment, crc16 |-> crc16, isascii |-> isascii]

(* gzip.adddata(data, compresslevel, mtime, filename, exfield, comment,     *)
(* crc16, isascii)                                                          *)
AddData(a, now) ==
    /\ HasHandle
    /\ IF mode \notin {"w", "a"} THEN NotWritable("adddata")
       ELSE \E r \in {adddata(a, platform, now)} :
                Written("adddata", r,
                        Call("adddata", a.level,
                             Supplied(a.mtime, a.filename, a.exfield, a.comment,
                                      a.crc16, a.isascii),
                             a.data, r.info))

(* addfile that builds the descriptor from the path before it tests the    *)
(* mode                                                                     *)
AddFile_SourceFirst(filepath, a, now) ==
    /\ HasHandle
    /\ IF mode \notin {"w", "a"}
       THEN IF Exists(filepath) THEN NotWritable("addfile")
            ELSE /\ result' = Outcome("addfile", <<>>, "OSError", <<>>)
                 /\ UNCHANGED <<archive, mode, fileopen, pos, gzipinfos, platform,
                                history>>
       ELSE \E r \in {addfile(filepath, a, platform, now)} :
                Written("addfile", r,
                        Call("addfile", a.level,
                             Supplied(None, None, a.exfield, a.comment,
                                      a.crc16, a.isascii),
                             IF Exists(filepath) THEN FileAt(filepath).content ELSE <<>>,
                             r.info))

(* gzip.addfile(filepath, compresslevel, exfield, comment, crc16, isascii)  *)
AddFile(filepath, a, now) ==
    /\ HasHandle
    /\ IF mode \notin {"w", "a"} THEN NotWritable("addfile")
       ELSE \E r \in {addfile(filepath, a, platform, now)} :
                Written("addfile", r,
                        Call("addfile", a.level,
                             Supplied(None, None, a.exfield, a.comment,
                                      a.crc16, a.isascii),
                             IF Exists(filepath) THEN FileAt(filepath).content ELSE <<>>,
                             r.info))

(* gzip.add(fileobj, gzipinfo, compresslevel) *)
Add(fileobj, gzipinfo, level, now) ==
    /\ HasHandle
    /\ IF mode \notin {"w", "a"} THEN NotWritable("add")
       ELSE \E r \in {add(fileobj, gzipinfo, level, now)} :
                Written("add", r,
                        Call("add", level,
                             Supplied(None, None, None, None, FALSE, FALSE),
                             fileobj.content, r.info))

NotReadable(op) ==
    /\ result' = Outcome(op, <<>>, "IOError: file not open for reading", <<>>)
    /\ UNCHANGED <<archive, mode, fileopen, pos, gzipinfos, platform, history>>

(* gzip.getinfo(filename) *)
GetInfo(filename) ==
    /\ HasHandle
    /\ IF mode # "r" THEN NotReadable("getinfo")
       ELSE /\ result' = Outcome("getinfo", filename, "none", getinfo(gzipinfos, filename))
            /\ UNCHANGED <<archive, mode, fileopen, pos, gzipinfos, platform, history>>

(* gzip.getinfolist() *)
GetInfoList ==
    /\ HasHandle
    /\ IF mode # "r" THEN NotReadable("getinfolist")
       ELSE /\ result' = Outcome("getinfolist", <<>>, "none", gzipinfos)
            /\ UNCHANGED <<archive, mode, fileopen, pos, gzipinfos, platform, history>>

(* gzip.extract(filename, gzipinfo) *)
Extract(filename, gzipinfo) ==
    /\ HasHandle
    /\ IF mode # "r" THEN NotReadable("extract")
       ELSE \E r \in {extract(archive, gzipinfos, filename, gzipinfo)} :
                /\ result' = Outcome("extract", <<>>, r.exc, r.buff)
                /\ pos' = IF r.exc = "ValueError" THEN pos ELSE r.pos
                /\ mode' = IF r.exc = "Hang" THEN "hung" ELSE mode
                /\ UNCHANGED <<archive, fileopen, gzipinfos, platform, history>>

(* gzip.extractfile(filename) *)
ExtractFile(filename) ==
    /\ HasHandle
    /\ IF mode # "r" THEN NotReadable("extractfile")
       ELSE \E r \in {extractfile(archive, gzipinfos, filename)} :
                /\ result' = Outcome("extractfile", <<>>, r.exc, r.buff)
                /\ pos' = IF r.exc = "ValueError" THEN pos ELSE r.pos
                /\ mode' = IF r.exc = "Hang" THEN "hung" ELSE mode
                /\ UNCHANGED <<archive, fileopen, gzipinfos, platform, history>>

(* Another program appends a byte behind the closed, undamaged archive *)
AppendGarbage(b) ==
    /\ mode = "none"
    /\ damage = <<>>
    /\ garbage < MaxGarbage
    /\ archive' = Append(archive, b)
    /\ garbage' = garbage + 1
    /\ result' = Outcome("garbage", <<>>, "none", <<>>)
    /\ UNCHANGED <<mode, fileopen, pos, gzipinfos, platform, added, failed, damage>>

(* The closed archive is damaged, once: bit k of its byte i is flipped *)
FlipBit(i, k) ==
    /\ mode = "none"
    /\ damage = <<>>
    /\ garbage = 0
    /\ i \in 1..Len(archive)
    /\ LET w == 2 ^ k
           b == archive[i]
       IN  archive' = [archive EXCEPT ![i] = IF (b \div w) % 2 = 1 THEN b - w ELSE b + w]
    /\ damage' = <<[kind |-> "flip", at |-> i, bit |-> k]>>
    /\ result' = Outcome("flip", <<>>, "none", <<>>)
    /\ UNCHANGED <<mode, fileopen, pos, gzipinfos, platform, added, failed, garbage>>

(* The closed archive is damaged, once: it is cut to its first n bytes *)
Truncate(n) ==
    /\ mode = "none"
    /\ damage = <<>>
    /\ garbage = 0
    /\ n \in 1..(Len(archive) - 1)
    /\ archive' = SubSeq(archive, 1, n)
    /\ damage' = <<[kind |-> "cut", at |-> n, bit |-> 0]>>
    /\ result' = Outcome("truncate", <<>>, "none", <<>>)
    /\ UNCHANGED <<mode, fileopen, pos, gzipinfos, platform, added, failed, garbage>>

----------------------------------------------------------------------------
(* The arguments the calls are made with *)
AddDataArgs(datas, levels, mtimes, names, exfields, comments, crc16s, isasciis) ==
    [data : datas, level : levels, mtime : mtimes, filename : names,
     exfield : exfields, comment : comments, crc16 : crc16s, isascii : isasciis]
AddFileArgs(levels, exfields, comments, crc16s, isasciis) ==
    [level : levels, exfield : exfields, comment : comments,
     crc16 : crc16s, isascii : isasciis]

Attempts == Len(added) + failed
LookupNames == {None, Some(<<>>), Some(NameA), Some(NameB)}

(* The calls that read: every name, every descriptor of the index, a        *)
(* descriptor that is not in it, and none.                                  *)
ReadCalls ==
    \/ \E n \in LookupNames : GetInfo(n)
    \/ GetInfoList
    \/ \E n \in LookupNames : Extract(n, None)
    \/ \E i \in 0..MaxMembers : Extract(None, Some(i))

(* Archives of one member, written with every combination of the metadata   *)
(* that adddata, addfile and add accept, then read back.                    *)
RoundTripAddData ==
    AddDataArgs({<<>>, Payload(BUFSIZE + 1)}, {1, 6, 9},
                {None, Some(0), Some(1412132400)},
                {None, Some(<<>>), Some(NameA)},
                {None, Some(<<>>), Some(<<7>>)},
                {None, Some(<<>>), Some(<<99>>)}, BOOLEAN, BOOLEAN)
RoundTripAddFile ==
    AddFileArgs({1, 6, 9}, {None, Some(<<>>), Some(<<7>>)},
                {None, Some(<<>>), Some(<<99>>)}, BOOLEAN, BOOLEAN)
ReadablePaths == {<<Dir, NameA>>, <<Dir, NameB>>}

NextRoundTrip ==
    \/ \E m \in {"w", "a"} : OpenWrite(m)
    \/ Attempts = 0 /\ \E a \in RoundTripAddData, now \in Clock : AddData(a, now)
    \/ Attempts = 0 /\ \E p \in ReadablePaths, a \in RoundTripAddFile, now \in Clock :
          AddFile(p, a, now)
    \/ Attempts = 0 /\ \E p \in ReadablePaths, l \in {1, 6, 9}, now \in Clock :
          \/ Add(OpenFile(p), None, l, now)
          \/ Add(BytesIO(FileAt(p).content), None, l, now)
    \/ Close
    \/ OpenRead
    \/ mode = "r" /\ ReadCalls

SpecRoundTrip == Init /\ [][NextRoundTrip]_vars

(* One-member archives written through each entry point at every level    *)
(* from -1 to 10.                                                           *)
Levels == -1..10
LevelsAddData ==
    AddDataArgs({<<5>>}, Levels, {Some(7)}, {Some(NameA)}, {None}, {None}, {FALSE}, {FALSE})
LevelsAddFile == AddFileArgs(Levels, {None}, {None}, {FALSE}, {FALSE})

NextLevels ==
    \/ OpenWrite("w")
    \/ Attempts = 0 /\ \E a \in LevelsAddData, now \in Clock : AddData(a, now)
    \/ Attempts = 0 /\ \E a \in LevelsAddFile, now \in Clock : AddFile(<<Dir, NameA>>, a, now)
    \/ Attempts = 0 /\ \E l \in Levels, now \in Clock :
          \/ Add(OpenFile(<<Dir, NameA>>), None, l, now)
          \/ Add(BytesIO(<<5>>), None, l, now)
    \/ Close
    \/ OpenRead
    \/ mode = "r" /\ ReadCalls

SpecLevels == Init /\ [][NextLevels]_vars

(* Archives of up to MaxMembers add calls, in one or several write          *)
(* sessions, some of which fail: a level zlib refuses, a name that is not   *)
(* Latin-1, a negative mtime, a missing or unreadable source file, a read   *)
(* error in the middle of the source.                                       *)
MembersAddData ==
    AddDataArgs({<<5>>}, {6, 10}, {Some(7)}, {None, Some(NameA), Some(NameB), Some(<<8364>>)},
                {None}, {None}, {FALSE}, {FALSE})
      \cup AddDataArgs({<<5>>}, {6}, {Some(-1)}, {None}, {None}, {None}, {FALSE}, {FALSE})
MembersAddFile == AddFileArgs({6}, {None}, {None}, {FALSE}, {FALSE})
MembersPaths == {x.path : x \in Files} \cup {MissingPath}

NextMembers ==
    \/ \E m \in {"w", "a"} : OpenWrite(m)
    \/ Attempts < MaxMembers /\ \E a \in MembersAddData, now \in Clock : AddData(a, now)
    \/ Attempts < MaxMembers /\ \E p \in MembersPaths, a \in MembersAddFile, now \in Clock :
          AddFile(p, a, now)
    \/ Close
    \/ OpenRead
    \/ mode = "r" /\ ReadCalls

SpecMembers == Init /\ [][NextMembers]_vars

(* Archives of up to MaxMembers members that another program then appends   *)
(* bytes to, or damages once, before they are opened for reading.           *)
GarbageBytes == {0, 8, 31, 139}
ScanAddData ==
    AddDataArgs({<<5>>}, {6}, {Some(7)}, {None, Some(NameA)}, {None}, {None},
                {FALSE}, {FALSE})
      \cup AddDataArgs({<<5>>}, {6}, {Some(7)}, {Some(NameA)}, {None}, {None},
                       {TRUE}, {FALSE})
      \cup AddDataArgs({<<5>>}, {6}, {Some(7)}, {None}, {Some(<<7>>)}, {Some(<<99>>)},
                       {FALSE}, {FALSE})

InitScan == Init /\ platform = 3

NextScan ==
    \/ OpenWrite("w")
    \/ Attempts < MaxMembers /\ \E a \in ScanAddData, now \in Clock : AddData(a, now)
    \/ Close
    \/ \E b \in GarbageBytes : AppendGarbage(b)
    \/ \E i \in 1..Len(archive), k \in 0..7 : FlipBit(i, k)
    \/ \E n \in 1..Len(archive) : Truncate(n)
    \/ OpenRead
    \/ mode = "r" /\ GetInfoList

SpecScan == InitScan /\ [][NextScan]_vars

(* Sessions in which every method is called on every handle, whatever the  *)
(* mode it was opened in.                                                   *)
ModesAddData ==
    AddDataArgs({<<5>>}, {6}, {Some(7)}, {None, Some(NameA)}, {None}, {None}, {FALSE}, {FALSE})
ModesAddFile == AddFileArgs({6}, {None}, {None}, {FALSE}, {FALSE})
ModesPaths == {<<Dir, NameA>>, MissingPath}

NextModes ==
    \/ \E m \in {"w", "a"} : OpenWrite(m)
    \/ (mode = "r" \/ Attempts < MaxMembers) /\
          \E a \in ModesAddData, now \in Clock : AddData(a, now)
    \/ (mode = "r" \/ Attempts < MaxMembers) /\
          \E p \in ModesPaths, a \in ModesAddFile, now \in Clock : AddFile(p, a, now)
    \/ (mode = "r" \/ Attempts < MaxMembers) /\
          \E now \in Clock : Add(BytesIO(<<5>>), None, 6, now)
    \/ Close
    \/ OpenRead
    \/ ReadCalls
    \/ \E n \in {Some(NameA), Some(NameB)} : ExtractFile(n)

SpecModes == Init /\ [][NextModes]_vars

(* Archives of one member with every combination of the extra field, the   *)
(* name, the comment and the header checksum, that another program then     *)
(* damages once before they are opened for reading.                         *)
HeadersAddData ==
    AddDataArgs({<<5>>}, {6}, {Some(7)}, {None, Some(NameA)}, {None, Some(<<7>>)},
                {None, Some(<<99>>)}, BOOLEAN, {FALSE})

NextHeaders ==
    \/ OpenWrite("w")
    \/ Attempts = 0 /\ \E a \in HeadersAddData, now \in Clock : AddData(a, now)
    \/ Close
    \/ \E i \in 1..Len(archive), k \in 0..7 : FlipBit(i, k)
    \/ OpenRead
    \/ mode = "r" /\ GetInfoList

SpecHeaders == InitScan /\ [][NextHeaders]_vars

(* Archives of up to MaxMembers members whose payloads have every length    *)
(* from 0 to twice the buffer size, so that the compressed payload ends at  *)
(* every offset within a read of BUFSIZE bytes.                             *)
OffsetsPayloads == {Payload(n) : n \in 0..(2 * BUFSIZE)}
OffsetsAddData ==
    AddDataArgs(OffsetsPayloads, {6}, {Some(7)}, {None}, {None}, {None},
                {FALSE}, {FALSE})

NextOffsets ==
    \/ OpenWrite("w")
    \/ Attempts < MaxMembers /\ \E a \in OffsetsAddData, now \in Clock : AddData(a, now)
    \/ Close
    \/ OpenRead
    \/ mode = "r" /\ GetInfoList
    \/ mode = "r" /\ \E i \in 1..MaxMembers : Extract(None, Some(i))

SpecOffsets == InitScan /\ [][NextOffsets]_vars

----------------------------------------------------------------------------
(* Vocabulary of the properties *)

(* Nothing but completed add calls has written the archive *)
Clean == failed = 0 /\ garbage = 0 /\ damage = <<>>
(* The last call was an open for reading that returned no handle *)
OpenFailed == result.op = "open" /\ mode \in {"none", "hung"}
(* The archive as it is has been opened for reading: a handle is held, or   *)
(* the open has just failed.                                                *)
WasOpened == mode = "r" \/ OpenFailed
FlagSet(d, bit) == BitAnd(d.FLG, bit) # 0

(* The payload that extract returns for the i-th descriptor of the index *)
Extracted(i) == extract(archive, gzipinfos, None, Some(i))

----------------------------------------------------------------------------
----------------------------------------------------------------------------
(* Vocabulary of the properties about archives of several members *)

(* The descriptor d read from the archive has the header fields of the      *)
(* descriptor w that the writer encoded.                                    *)
SameHeader(d, w) ==
    /\ d.CM = w.CM /\ d.FLG = w.FLG /\ d.MTIME = w.MTIME
    /\ d.XFL = w.XFL /\ d.OS = w.OS
    /\ d.EXFIELD = w.EXFIELD /\ d.FNAME = w.FNAME /\ d.FCOMMENT = w.FCOMMENT

(* The index lists exactly the members of the completed add calls, in the   *)
(* order of the calls, and each extracts to the payload it was given.       *)
IndexIsAdded ==
    /\ Len(gzipinfos) = Len(added)
    /\ \A i \in 1..Len(added) :
          /\ SameHeader(gzipinfos[i], added[i].info)
          /\ Extracted(i).exc = "none"
          /\ Extracted(i).buff = added[i].payload

(* The layout of member k as its add call wrote it *)
HeaderLen(k) == Len(tobuf(added[k].info).buf)
ExtraLen(k) == IF IsNone(added[k].info.EXFIELD) THEN 0
               ELSE 2 + Len(Val(added[k].info.EXFIELD))
HcrcLen(k) == IF FlagSet(added[k].info, FHCRC) THEN 2 ELSE 0
HasText(k) == FlagSet(added[k].info, FNAME) \/ FlagSet(added[k].info, FCOMMENT)
FooterAt(k) == (added[k].to - FOOTER_SIZE + 1)..added[k].to
HcrcAt(k) == (added[k].from + HeaderLen(k) - HcrcLen(k) + 1)..(added[k].from + HeaderLen(k))
(* cut points that leave the last name or comment of member k without its   *)
(* terminating zero byte                                                    *)
TextCuts(k) ==
    IF HasText(k)
    THEN (added[k].from + HEADER_SIZE + ExtraLen(k))..
             (added[k].from + HeaderLen(k) - HcrcLen(k) - 1)
    ELSE {}

Members == 1..Len(added)
Flipped(at) == damage # <<>> /\ damage[1].kind = "flip" /\ damage[1].at \in at
CutAt(at) == damage # <<>> /\ damage[1].kind = "cut" /\ damage[1].at \in at
(* the bytes behind the last member *)
Trailing == SubSeq(archive, added[Len(added)].to + 1, Len(archive))

----------------------------------------------------------------------------
(* C2.  getinfo(name) on a read handle never raises; it returns the LAST    *)
(* descriptor of the index whose name equals name, and None when the index  *)
(* has no descriptor of that name.  On an archive that only completed add   *)
(* calls wrote, that descriptor is the one of the last add call made with   *)
(* that name.                                                               *)
C2_GetInfoLast ==
    (mode = "r" /\ result.op = "getinfo") =>
        LET hits == {i \in 1..Len(gzipinfos) : gzipinfos[i].FNAME = result.arg}
        IN  /\ result.exc = "none"
            /\ hits = {} => result.val = None
            /\ hits # {} => /\ ~IsNone(result.val)
                            /\ Val(result.val) \in hits
                            /\ \A j \in hits : j <= Val(result.val)
            /\ (Clean /\ hits # {}) =>
                  /\ Val(result.val) \in Members
                  /\ added[Val(result.val)].info.FNAME = result.arg
                  /\ \A j \in Members :
                        j > Val(result.val) => added[j].info.FNAME # result.arg

(* Two members named "a" were appended, and getinfo("a") returned the       *)
(* second.                                                                  *)
C2_Witness ==
    /\ mode = "r" /\ Clean /\ Len(added) = 2
    /\ added[1].info.FNAME = Some(NameA) /\ added[2].info.FNAME = Some(NameA)
    /\ result.op = "getinfo" /\ result.arg = Some(NameA)
    /\ result.val = Some(2)

(* getinfo of a name that no member has returned None *)
C2_WitnessNotFound ==
    /\ mode = "r" /\ Clean /\ Len(added) = 2
    /\ result.op = "getinfo" /\ result.arg = Some(NameB)
    /\ result.exc = "none" /\ result.val = None

----------------------------------------------------------------------------
(* C3.  Trailing garbage: when n >= 1 members are followed by bytes that do *)
(* not begin with the magic 1f 8b, open for reading returns a handle whose  *)
(* index lists exactly the n members, in file order.                        *)
TrailingGarbage ==
    /\ failed = 0 /\ damage = <<>> /\ Len(added) >= 1 /\ garbage >= 1
    /\ Take(Trailing, 2) # GZIP_MAGIC

C3_TrailingGarbage ==
    (WasOpened /\ TrailingGarbage) =>
        /\ mode = "r"
        /\ result.op = "open" => result.exc = "none"
        /\ IndexIsAdded

(* Two members followed by two bytes of garbage have been opened *)
C3_Witness ==
    /\ TrailingGarbage /\ Len(added) = 2 /\ garbage = 2
    /\ mode = "r" /\ Len(gzipinfos) = 2
    /\ result.op = "getinfolist" /\ result.val = gzipinfos

----------------------------------------------------------------------------
(* C4.  A file without members never opens for reading: the empty file      *)
(* fails with "file is empty", a file whose first two bytes are not the     *)
(* magic fails with "file is not gzip format", and no handle is returned.   *)
C4_ZeroMembers ==
    /\ (WasOpened /\ archive = <<>>) =>
          /\ result.op = "open" /\ result.exc = "IOError: file is empty"
          /\ mode = "none" /\ gzipinfos = <<>>
    /\ (WasOpened /\ archive # <<>> /\ Take(archive, 2) # GZIP_MAGIC) =>
          /\ result.op = "open" /\ result.exc = "IOError: file is not gzip format"
          /\ mode = "none" /\ gzipinfos = <<>>
    /\ mode = "r" => gzipinfos # <<>>

(* The open of an empty file has failed *)
C4_WitnessEmpty ==
    /\ archive = <<>> /\ OpenFailed
    /\ result.exc = "IOError: file is empty"

(* The open of a file that is not empty and does not begin with the magic   *)
(* has failed.                                                              *)
C4_WitnessNotGzip ==
    /\ archive # <<>> /\ Take(archive, 2) # GZIP_MAGIC /\ OpenFailed
    /\ result.exc = "IOError: file is not gzip format"

----------------------------------------------------------------------------
(* C5.  Footer verification: when the footer stored for a member, at any    *)
(* position, differs from the CRC32 of its payload or from the length of    *)
(* its payload modulo 2^32, open for reading fails with BadChecksum and     *)
(* returns no handle and no member.                                         *)
FooterDiffers(k) ==
    /\ failed = 0 /\ garbage = 0 /\ Flipped(FooterAt(k))
    /\ LET stored == SubSeq(archive, added[k].to - FOOTER_SIZE + 1, added[k].to)
       IN  \/ SubSeq(stored, 1, 4) # Pack32(crc32(added[k].payload, 0))
           \/ SubSeq(stored, 5, 8) # Pack32(Mod32(Len(added[k].payload)))

C5_FooterVerified ==
    (WasOpened /\ \E k \in Members : FooterDiffers(k)) =>
        /\ result.op = "open" /\ result.exc = "BadChecksum"
        /\ mode = "none" /\ gzipinfos = <<>>

(* The open of an archive of two members has failed on the stored length of *)
(* the second.                                                              *)
C5_Witness ==
    /\ Len(added) = 2 /\ FooterDiffers(2)
    /\ damage[1].at > added[2].to - 4
    /\ OpenFailed /\ result.exc = "BadChecksum"

(* The open has failed on the stored CRC32 of the first of two members *)
C5_WitnessFirst ==
    /\ Len(added) = 2 /\ FooterDiffers(1)
    /\ damage[1].at <= added[1].to - 4
    /\ OpenFailed /\ result.exc = "BadChecksum"

----------------------------------------------------------------------------
(* C6.  An invalid member behind n >= 1 valid ones: when the bytes behind   *)
(* the valid members begin with the magic and are a header of fewer than    *)
(* ten bytes, or have a method other than 8, a reserved flag bit, a name or *)
(* comment without its zero byte, or a header or footer checksum that does  *)
(* not match, open for reading fails with a GzipError and returns no handle *)
(* and no member.                                                           *)
ShortHeader ==
    \/ /\ damage = <<>> /\ Len(added) >= 1 /\ garbage >= 2
       /\ Take(Trailing, 2) = GZIP_MAGIC /\ Len(Trailing) < HEADER_SIZE
    \/ \E k \in Members \ {1} :
          CutAt((added[k].from + 2)..(added[k].from + HEADER_SIZE - 1))
BadMethod == \E k \in Members \ {1} : Flipped({added[k].from + 3})
ReservedBits ==
    \E k \in Members \ {1} : Flipped({added[k].from + 4}) /\ damage[1].bit >= 5
Unterminated == \E k \in Members \ {1} : CutAt(TextCuts(k))
BadSums == \E k \in Members \ {1} : Flipped(FooterAt(k) \cup HcrcAt(k))

InvalidTail ==
    failed = 0 /\ (ShortHeader \/ BadMethod \/ ReservedBits \/ Unterminated \/ BadSums)

C6_InvalidTailFatal ==
    (WasOpened /\ InvalidTail) =>
        /\ result.op = "open" /\ result.exc \in {"GzipError", "BadChecksum"}
        /\ IsGzipError(result.exc)
        /\ mode = "none" /\ gzipinfos = <<>>

(* The open has failed on the magic alone behind a valid member *)
C6_Witness ==
    /\ Len(added) = 1 /\ failed = 0 /\ damage = <<>> /\ Trailing = GZIP_MAGIC
    /\ OpenFailed /\ result.exc = "GzipError"

(* The open has failed on a second member cut inside its name *)
C6_WitnessUnterminated ==
    /\ Len(added) = 2 /\ failed = 0 /\ Unterminated
    /\ OpenFailed /\ result.exc = "GzipError"

(* The open has failed on the header checksum of a second member *)
C6_WitnessHcrc ==
    /\ Len(added) = 2 /\ failed = 0 /\ Flipped(HcrcAt(2))
    /\ OpenFailed /\ result.exc = "BadChecksum"

----------------------------------------------------------------------------
(* C7.  Header validation: every descriptor in the index of a read handle   *)
(* has method 8 and the flag bits 5-7 clear, and a member whose header has  *)
(* another method, or one of the bits 5-7 set, makes open for reading fail  *)
(* with a GzipError.                                                        *)
InvalidHeader ==
    /\ failed = 0 /\ garbage = 0
    /\ \E k \in Members :
          /\ Flipped({added[k].from + 3, added[k].from + 4})
          /\ \/ archive[added[k].from + 3] # 8
             \/ BitAnd(archive[added[k].from + 4], FRESERVED) # 0

C7_HeaderValidation ==
    /\ \A i \in 1..Len(gzipinfos) :
          gzipinfos[i].CM = 8 /\ BitAnd(gzipinfos[i].FLG, FRESERVED) = 0
    /\ (WasOpened /\ InvalidHeader) =>
          /\ result.op = "open" /\ result.exc = "GzipError"
          /\ mode = "none" /\ gzipinfos = <<>>

(* The open has failed on bit 7 of the flags of the first member *)
C7_Witness ==
    /\ InvalidHeader /\ damage[1].at = added[1].from + 4 /\ damage[1].bit = 7
    /\ OpenFailed /\ result.exc = "GzipError"

(* The open has failed on the method of the second member *)
C7_WitnessMethod ==
    /\ InvalidHeader /\ Len(added) = 2 /\ damage[1].at = added[2].from + 3
    /\ OpenFailed /\ result.exc = "GzipError"

----------------------------------------------------------------------------
(* C8, as claimed.  Extra flags: a member appended at level 9 reads back    *)
(* with XFL = 2, at level 1 with XFL = 4, at a level 2..8 with XFL = 0,     *)
(* whether add with an inferred descriptor, addfile or adddata appended it. *)
C8_ExtraFlags ==
    (Clean /\ mode = "r" /\ Len(gzipinfos) = Len(added)) =>
        \A i \in Members :
            /\ added[i].level = Z_BEST_COMPRESSION => gzipinfos[i].XFL = 2
            /\ added[i].level = Z_BEST_SPEED => gzipinfos[i].XFL = 4
            /\ added[i].level \in 2..8 => gzipinfos[i].XFL = 0

----------------------------------------------------------------------------
(* C9, as claimed.  Levels: no add, addfile or adddata call with a level    *)
(* outside 1..9 returns, and none writes a byte.                            *)
C9_LevelsOneToNine ==
    /\ \A i \in Members : added[i].level \in Z_BEST_SPEED..Z_BEST_COMPRESSION
    /\ (Len(added) = 0 /\ garbage = 0) => archive = <<>>

----------------------------------------------------------------------------
(* C10, as claimed.  Write failures: whatever add calls have failed, an     *)
(* archive with at least one completed add call opens for reading, and the  *)
(* index lists exactly the members of the completed calls, in order.        *)
C10_FailureIsolation ==
    (garbage = 0 /\ damage = <<>> /\ Len(added) >= 1 /\ WasOpened) =>
        /\ mode = "r"
        /\ IndexIsAdded

----------------------------------------------------------------------------
(* C11.  Append-only frame: a step of a write session ('w' or 'a') leaves   *)
(* the bytes the archive had in place, in front of whatever it appends, and *)
(* the handle of a write session has an empty index throughout.             *)
C11_AppendOnly ==
    [][ (mode \in {"w", "a"} /\ mode' = mode) =>
            /\ Len(archive') >= Len(archive)
            /\ SubSeq(archive', 1, Len(archive)) = archive
            /\ pos' = Len(archive')
            /\ gzipinfos = <<>> /\ gzipinfos' = <<>> ]_vars

(* An 'a' session has appended a second member right behind a first *)
C11_Witness ==
    /\ mode = "a" /\ Len(added) = 2 /\ failed = 0
    /\ result.op \in {"adddata", "addfile"} /\ result.exc = "none"
    /\ added[2].to = Len(archive) /\ added[2].from = added[1].to
    /\ added[1].from = 0
    /\ gzipinfos = <<>>

----------------------------------------------------------------------------
(* C12.  Index order: when add calls that all completed have written the    *)
(* archive, in one 'w' session or in a 'w' session and 'a' sessions after   *)
(* it, open for reading returns a handle whose index has one descriptor for *)
(* each call, the i-th being that of the i-th call.                         *)
C12_IndexOrder ==
    (Clean /\ Len(added) >= 1 /\ WasOpened) =>
        /\ mode = "r"
        /\ Len(gzipinfos) = Len(added)
        /\ \A i \in Members :
              /\ SameHeader(gzipinfos[i], added[i].info)
              /\ Val(gzipinfos[i].data_offset) = added[i].from + HeaderLen(i)
              /\ Val(gzipinfos[i].CRC32) = crc32(added[i].payload, 0)

(* A member named "a" written in a 'w' session and a member named "b"      *)
(* appended in an 'a' session are listed in that order.                     *)
C12_Witness ==
    /\ Clean /\ mode = "r" /\ Len(added) = 2
    /\ added[1].session = "w" /\ added[2].session = "a"
    /\ added[1].info.FNAME = Some(NameA) /\ added[2].info.FNAME = Some(NameB)
    /\ result.op = "getinfolist"
    /\ Len(result.val) = 2
    /\ result.val[1].FNAME = Some(NameA) /\ result.val[2].FNAME = Some(NameB)

----------------------------------------------------------------------------
(* C13.  Release on a failed open: whenever open for reading has raised,    *)
(* whatever the error of the scan, the underlying file is closed and no     *)
(* handle is held; a file is open only under a handle or under a scan that  *)
(* has not returned.                                                        *)
C13_ReleasedOnFailure ==
    /\ (result.op = "open" /\ result.exc \notin {"none", "Hang"}) =>
          /\ ~fileopen
          /\ mode = "none" /\ gzipinfos = <<>>
    /\ fileopen => mode \in {"r", "w", "a", "hung"}

(* The open has failed with an error that is not a GzipError, on an archive *)
(* cut inside a footer, and the file is closed.                             *)
C13_Witness ==
    /\ OpenFailed /\ result.exc = "struct.error"
    /\ Len(added) >= 1 /\ CutAt(FooterAt(Len(added)))
    /\ ~fileopen

----------------------------------------------------------------------------
(* C14.  Mode enforcement: on a handle opened 'w' or 'a' every getinfo,     *)
(* getinfolist, extract and extractfile call raises "file not open for      *)
(* reading", on a handle opened 'r' every add, addfile and adddata call     *)
(* raises "file not writible", and such a call leaves the bytes and the     *)
(* position of the file, the index and the handle as they were.             *)
ReadMethods == {"getinfo", "getinfolist", "extract", "extractfile"}
WriteMethods == {"add", "addfile", "adddata"}

C14_ModeEnforced ==
    [][ /\ (mode \in {"w", "a"} /\ result'.op \in ReadMethods) =>
              /\ result'.exc = "IOError: file not open for reading"
              /\ UNCHANGED <<archive, pos, gzipinfos, mode, fileopen>>
        /\ (mode = "r" /\ result'.op \in WriteMethods) =>
              /\ result'.exc = "IOError: file not writible"
              /\ UNCHANGED <<archive, pos, gzipinfos, mode, fileopen>> ]_vars

(* addfile of a path that does not exist has raised the mode error on a     *)
(* read handle.                                                             *)
C14_Witness ==
    /\ mode = "r" /\ gzipinfos # <<>>
    /\ result.op = "addfile" /\ result.exc = "IOError: file not writible"
    /\ failed = 0 /\ Len(added) = 1 /\ Len(archive) = added[1].to

(* extractfile has raised the mode error on a handle opened 'a' *)
C14_WitnessRead ==
    /\ mode = "a" /\ archive # <<>>
    /\ result.op = "extractfile"
    /\ result.exc = "IOError: file not open for reading"

----------------------------------------------------------------------------
(* C15, as claimed.  Termination of the scan: open for reading always       *)
(* returns a handle or raises; in particular, on an archive that ends       *)
(* inside the compressed payload of a member, or right behind it with no    *)
(* footer, it raises a GzipError, and no scan reads the end of the file     *)
(* forever.                                                                 *)
PayloadAt(k) == (added[k].from + HeaderLen(k))..(added[k].to - FOOTER_SIZE)

C15_ScanTerminates ==
    /\ mode # "hung" /\ result.exc # "Hang"
    /\ (WasOpened /\ failed = 0 /\ \E k \in Members : CutAt(PayloadAt(k))) =>
          /\ result.op = "open" /\ IsGzipError(result.exc)
          /\ mode = "none"

----------------------------------------------------------------------------
(* C16.  Header checksum: a member written with the HCRC flag has, as the   *)
(* last two bytes of its header, crc32 modulo 65536 of all the header bytes *)
(* before them (the fixed ten, then the extra field, the name and the       *)
(* comment as flagged); every header that add wrote, for every combination  *)
(* of the flags, passes the check of open for reading; a descriptor with    *)
(* the flag is in an index only when the stored checksum equals the one     *)
(* recomputed over the header bytes read, and a stored checksum that        *)
(* differs makes the open fail with BadChecksum.                            *)
Crc16Of(bytes) == crc32(bytes, 0) % 65536

(* the header of the first member as the file has it, without the checksum *)
HeaderRead(d) == SubSeq(archive, 1, Val(d.data_offset) - 2)
StoredHcrc(d) == SubSeq(archive, Val(d.data_offset) - 1, Val(d.data_offset))

C16_HeaderChecksum ==
    /\ \A k \in Members :
          (FlagSet(added[k].info, FHCRC) /\ damage = <<>>) =>
              LET h == SubSeq(archive, added[k].from + 1, added[k].from + HeaderLen(k))
              IN  /\ SubSeq(h, Len(h) - 1, Len(h))
                        = Pack16(Crc16Of(SubSeq(h, 1, Len(h) - 2)))
                  /\ Len(h) = HEADER_SIZE + ExtraLen(k) + 2
                        + (IF FlagSet(added[k].info, FNAME)
                           THEN Len(Val(added[k].info.FNAME)) + 1 ELSE 0)
                        + (IF FlagSet(added[k].info, FCOMMENT)
                           THEN Len(Val(added[k].info.FCOMMENT)) + 1 ELSE 0)
    /\ (Clean /\ Len(added) = 1 /\ WasOpened) =>
          /\ mode = "r" /\ Len(gzipinfos) = 1
          /\ FlagSet(gzipinfos[1], FHCRC) = FlagSet(added[1].info, FHCRC)
          /\ IsNone(gzipinfos[1].CRC16) = ~FlagSet(added[1].info, FHCRC)
    /\ (mode = "r" /\ gzipinfos # <<>> /\ FlagSet(gzipinfos[1], FHCRC)) =>
          /\ ~IsNone(gzipinfos[1].CRC16)
          /\ Val(gzipinfos[1].CRC16) = Crc16Of(HeaderRead(gzipinfos[1]))
          /\ StoredHcrc(gzipinfos[1]) = Pack16(Val(gzipinfos[1].CRC16))
    /\ (WasOpened /\ failed = 0 /\ \E k \in Members :
            FlagSet(added[k].info, FHCRC) /\ Flipped(HcrcAt(k))) =>
          /\ result.op = "open" /\ result.exc = "BadChecksum"
          /\ mode = "none" /\ gzipinfos = <<>>

(* A member with an extra field, a name, a comment and the header checksum  *)
(* has been indexed.                                                        *)
C16_Witness ==
    /\ Clean /\ mode = "r" /\ Len(added) = 1
    /\ added[1].supplied = Supplied(Some(7), Some(NameA), Some(<<7>>), Some(<<99>>),
                                    TRUE, FALSE)
    /\ FlagSet(gzipinfos[1], FHCRC) /\ ~IsNone(gzipinfos[1].CRC16)
    /\ result.op = "getinfolist"

(* The open has failed on a changed bit of the stored header checksum *)
C16_WitnessMismatch ==
    /\ Len(added) = 1 /\ FlagSet(added[1].info, FHCRC) /\ Flipped(HcrcAt(1))
    /\ OpenFailed /\ result.exc = "BadChecksum"

----------------------------------------------------------------------------
(* C17.  Offset tracking: in the scan of an archive of valid members the    *)
(* data offset of each descriptor is the position right behind the header   *)
(* of its member; the scan of a member, started at its first byte, reads    *)
(* the footer at the first byte behind the compressed payload and ends at   *)
(* the first byte of the next member, wherever the compressed payload ends  *)
(* within a read of BUFSIZE bytes; the data offsets increase with the       *)
(* index; and extract at a data offset returns the payload whose checksum   *)
(* and length the scan verified.                                            *)
CompressedLen(k) == added[k].to - FOOTER_SIZE - (added[k].from + HeaderLen(k))
ScanOf(k) == fromgzipfile(archive, added[k].from)

C17_OffsetTracking ==
    (Clean /\ Len(added) >= 1 /\ WasOpened) =>
        /\ mode = "r" /\ Len(gzipinfos) = Len(added)
        /\ result.op = "open" => pos = Len(archive)
        /\ \A i \in Members :
              /\ Val(gzipinfos[i].data_offset) = added[i].from + HeaderLen(i)
              /\ ScanOf(i).exc = "none"
              /\ ScanOf(i).pos = added[i].to
              /\ i < Len(added) => ScanOf(i).pos = added[i + 1].from
              /\ Pack32(Val(gzipinfos[i].CRC32)) \o Pack32(Val(gzipinfos[i].ISIZE))
                    = SubSeq(archive, added[i].to - FOOTER_SIZE + 1, added[i].to)
              /\ i > 1 => Val(gzipinfos[i].data_offset) > Val(gzipinfos[i - 1].data_offset)
              /\ Extracted(i).exc = "none"
              /\ Extracted(i).buff = added[i].payload
              /\ crc32(Extracted(i).buff, 0) = Val(gzipinfos[i].CRC32)
              /\ Mod32(Len(Extracted(i).buff)) = Val(gzipinfos[i].ISIZE)

(* The second of two members has been extracted where the compressed        *)
(* payload of the first ends exactly at the end of a read of BUFSIZE bytes. *)
C17_Witness ==
    /\ Clean /\ mode = "r" /\ Len(added) = 2
    /\ Len(added[1].payload) > 0
    /\ CompressedLen(1) % BUFSIZE = 0
    /\ added[2].payload # added[1].payload
    /\ result.op = "extract" /\ result.exc = "none"
    /\ result.val = added[2].payload

============================================================================
